---- MODULE Spec2Model ----
(***************************************************************************)
(* otp_textlocal: TextlocalSMSDevice, a django_otp Device that sends the   *)
(* current TOTP token by SMS and verifies a submitted token against a      *)
(* window of past time steps, with last_t as the anti-replay watermark.    *)
(*                                                                         *)
(* Time is counted in whole seconds from an arbitrary origin (step=1, so a *)
(* second is a TOTP step).  HOTP (HMAC-SHA1, truncated, mod 10^6) is the   *)
(* library function django_otp.oath.hotp; it is modelled as an arbitrary   *)
(* but fixed function from (key, step) to a code, chosen in Init.          *)
(***************************************************************************)
EXTENDS Integers, Sequences, FiniteSets, TLC

VARIABLES
    now,      \* time.time(), whole seconds
    key,      \* key[d]: the key field of device d
    last_t,   \* last_t[d]: the last_t field of device d (saved on change)
    hotp,     \* hotp[k][t]: django_otp.oath.hotp(k, t, 6)
    conf,     \* django.conf.settings: name -> Unset or Set(value)
    issued,   \* history: issued[d] = times at which generate_challenge(d) logged or posted a token
    call      \* the last generate_challenge / verify_token call and its outcome

vars == <<now, key, last_t, hotp, conf, issued, call>>

----------------------------------------------------------------------------
(* Bounds of the model *)

\* clock values are 0..MaxTime
MaxTime == 3

\* OTP_TEXTLOCAL_TOKEN_VALIDITY is drawn from 0..MaxValidity
MaxValidity == 1

\* the values HOTP takes in the model (two of the 10^6 six-digit codes)
Codes == {42, 123456}

Times == 0..MaxTime

----------------------------------------------------------------------------
(* Python values *)

PyNone == "None"

Digits == <<"0", "1", "2", "3", "4", "5", "6", "7", "8", "9">>

DigitSet == {Digits[i] : i \in 1..10}

DigitVal(ch) == (CHOOSE i \in 1..10 : Digits[i] = ch) - 1

RECURSIVE Pow10(_)
Pow10(n) == IF n = 0 THEN 1 ELSE 10 * Pow10(n - 1)

\* width of format(token, '06d')
TokenWidth == 6

\* format(n, 'd'): the decimal digits, no padding
RECURSIVE FormatD(_)
FormatD(n) ==
    IF n < 10 THEN <<Digits[n + 1]>>
    ELSE FormatD(n \div 10) \o <<Digits[(n % 10) + 1]>>

\* format(n, '06d'): at least six decimal digits, zero padded
Format06d(n) == [i \in 1..TokenWidth |-> Digits[((n \div Pow10(TokenWidth - i)) % 10) + 1]]

\* a str argument / a None argument of verify_token
Str(chars) == [kind |-> "str", chars |-> chars]

NoneArg == [kind |-> "None", chars |-> <<>>]

RECURSIVE DigitsValue(_)
DigitsValue(chars) ==
    IF chars = <<>> THEN 0
    ELSE 10 * DigitsValue(SubSeq(chars, 1, Len(chars) - 1)) + DigitVal(chars[Len(chars)])

\* int(token) that skips what is not a digit instead of raising
IntParseLax(arg) ==
    [exc |-> "none",
     val |-> DigitsValue(SelectSeq(arg.chars, LAMBDA ch : ch \in DigitSet))]

\* int(token): a value, or an exception (ValueError for a str that is not a
\* decimal numeral, TypeError for None)
IntParse(arg) ==
    IF arg.kind # "str" THEN [exc |-> "TypeError", val |-> 0]
    ELSE IF arg.chars # <<>> /\ \A i \in 1..Len(arg.chars) : arg.chars[i] \in DigitSet
    THEN [exc |-> "none", val |-> DigitsValue(arg.chars)]
    ELSE [exc |-> "ValueError", val |-> 0]

----------------------------------------------------------------------------
(* conf.Settings *)

Unset == [set |-> FALSE]

Set(v) == [set |-> TRUE, val |-> v]

\* a template is a sequence of literal chunks and "{token}" placeholders
TplToken == <<"{token}">>

TplSentBySMS == <<"Sent by SMS">>

TplTokenIs == <<"Token is ", "{token}">>

DefaultTokenValidity == 30

Defaults ==
    [ OTP_TEXTLOCAL_ACCOUNT |-> PyNone,
      OTP_TEXTLOCAL_AUTH |-> PyNone,
      OTP_TEXTLOCAL_CHALLENGE_MESSAGE |-> TplSentBySMS,
      OTP_TEXTLOCAL_FROM |-> PyNone,
      OTP_TEXTLOCAL_NO_DELIVERY |-> FALSE,
      OTP_TEXTLOCAL_TOKEN_TEMPLATE |-> TplToken,
      OTP_TEXTLOCAL_TOKEN_VALIDITY |-> DefaultTokenValidity ]

\* Settings.__getattr__(name): the Django setting, else the default, else
\* AttributeError
Setting(name) ==
    IF conf[name].set THEN [exc |-> "none", val |-> conf[name].val]
    ELSE IF name \in DOMAIN Defaults THEN [exc |-> "none", val |-> Defaults[name]]
    ELSE [exc |-> "AttributeError", val |-> PyNone]

\* str.format(token=token) on a template
RECURSIVE FormatTemplate(_, _)
FormatTemplate(tpl, token) ==
    IF tpl = <<>> THEN <<>>
    ELSE (IF Head(tpl) = "{token}" THEN token ELSE <<Head(tpl)>>)
         \o FormatTemplate(Tail(tpl), token)

----------------------------------------------------------------------------
(* The keys of the two devices of the tests *)

\* length in bytes that key_validator asks of a key
KeyBytes == 20

\* key_validator = hex_validator(20): a hex string of twice as many
\* characters.  It is attached to the key field and runs when a form or
\* full_clean() validates the device, not in save() or objects.create(), and
\* not in generate_challenge or verify_token.
KeyValidator(k) == Len(k) = 2 * KeyBytes

AliceKey == "01234567890123456789"

BobKey == "98765432109876543210"

TestKeys == [alice |-> AliceKey, bob |-> BobKey]

----------------------------------------------------------------------------
(* django_otp.oath.TOTP as totp_obj() builds it: step = 1, t0 = 0,
   time = time.time() *)

TOTP_t(drift) == now + drift

\* every device computes with one and the same key
TOTP_tokenOneKey(d, drift) == hotp[TestKeys.alice][TOTP_t(drift)]

TOTP_token(d, drift) == hotp[key[d]][TOTP_t(drift)]

----------------------------------------------------------------------------
(* The Textlocal endpoint's answer to requests.post: the call raises, or it
   returns a response with an HTTP status and a body *)

Responses ==
    {[post |-> "ConnectionError", http |-> 0, json |-> FALSE, status |-> "absent"]}
    \cup [post : {"ok"}, http : {200, 500}, json : BOOLEAN,
          status : {"absent", "success", "failure"}]

\* TextlocalSMSDevice._validate_config: the name of the exception raised, or "none"
ValidateConfig ==
    LET api == Setting("OTP_TEXTLOCAL_API_KEY")
        url == Setting("OTP_TEXTLOCAL_URL")
        sender == Setting("OTP_TEXTLOCAL_SENDER")
    IN  IF api.exc # "none" THEN api.exc
        ELSE IF api.val = PyNone THEN "ImproperlyConfigured"
        ELSE IF url.exc # "none" THEN url.exc
        ELSE IF url.val = PyNone THEN "ImproperlyConfigured"
        ELSE IF sender.exc # "none" THEN sender.exc
        ELSE IF sender.val = PyNone THEN "ImproperlyConfigured"
        ELSE "none"

\* the handling of the answer without the test of its 'status'
ResponseErrorAnyStatus(resp) ==
    IF resp.post # "ok" THEN resp.post
    ELSE IF resp.http >= 400 THEN "HTTPError"
    ELSE IF ~resp.json THEN "ValueError"
    ELSE "none"

\* what _deliver_token raises on the endpoint's answer ("none": nothing):
\* the exception of requests.post, of raise_for_status (HTTP 4xx, 5xx), of
\* response.json(), or Exception when 'status' is missing or not 'success'
ResponseError(resp) ==
    IF resp.post # "ok" THEN resp.post
    ELSE IF resp.http >= 400 THEN "HTTPError"
    ELSE IF ~resp.json THEN "ValueError"
    ELSE IF resp.status # "success" THEN "Exception"
    ELSE "none"

\* TextlocalSMSDevice._deliver_token(message) when the endpoint answers resp:
\* the exception it raises ("none": it returns) and the requests.post calls made
DeliverToken(message, resp) ==
    LET cfg == ValidateConfig
    IN  IF cfg # "none" THEN [exc |-> cfg, posts |-> 0, posted |-> <<>>]
        ELSE [exc |-> ResponseError(resp), posts |-> 1, posted |-> message]

\* no endpoint answers when nothing is posted
NoResponse == [post |-> "none", http |-> 0, json |-> FALSE, status |-> "absent"]

\* the answers the endpoint can give to the next generate_challenge
Answers ==
    IF Setting("OTP_TEXTLOCAL_NO_DELIVERY").val \/ ValidateConfig # "none"
    THEN {NoResponse} ELSE Responses

NoArg == [kind |-> "na", chars |-> <<>>]

NoCall ==
    [op |-> "none", dev |-> "", at |-> 0, arg |-> NoArg, old_last_t |-> <<>>,
     verified |-> FALSE, computed |-> 0, saves |-> 0,
     exc |-> "none", returned |-> FALSE, ret |-> <<>>, token |-> <<>>,
     logged |-> <<>>, delivers |-> 0, handed |-> <<>>, posts |-> 0,
     posted |-> <<>>, resp |-> NoResponse]

\* a generate_challenge that marks the current step as used
AfterChallengeMarked(d) == [last_t EXCEPT ![d] = now]

\* the last_t fields after generate_challenge on d: it assigns no field of
\* the device and does not save
AfterChallenge(d) == last_t

\* a generate_challenge that returns the delivered message
ChallengeIsMessage(token) ==
    FormatTemplate(Setting("OTP_TEXTLOCAL_TOKEN_TEMPLATE").val, token)

\* settings.OTP_TEXTLOCAL_CHALLENGE_MESSAGE.format(token=token)
Challenge(token) ==
    FormatTemplate(Setting("OTP_TEXTLOCAL_CHALLENGE_MESSAGE").val, token)

\* a generate_challenge that validates the delivery settings before it looks
\* at OTP_TEXTLOCAL_NO_DELIVERY
DispatchValidated(message, resp) ==
    IF ValidateConfig # "none"
    THEN [exc |-> ValidateConfig, posts |-> 0, posted |-> <<>>,
          logged |-> <<>>, delivers |-> 1, handed |-> message]
    ELSE IF Setting("OTP_TEXTLOCAL_NO_DELIVERY").val
    THEN [exc |-> "none", posts |-> 0, posted |-> <<>>,
          logged |-> message, delivers |-> 1, handed |-> message]
    ELSE [exc |-> ResponseError(resp), posts |-> 1, posted |-> message,
          logged |-> <<>>, delivers |-> 1, handed |-> message]

\* the if of generate_challenge: logger.info(message) in no-delivery mode,
\* self._deliver_token(message) otherwise
Dispatch(message, resp) ==
    IF Setting("OTP_TEXTLOCAL_NO_DELIVERY").val
    THEN [exc |-> "none", posts |-> 0, posted |-> <<>>,
          logged |-> message, delivers |-> 0, handed |-> <<>>]
    ELSE LET sent == DeliverToken(message, resp)
         IN  [exc |-> sent.exc, posts |-> sent.posts, posted |-> sent.posted,
              logged |-> <<>>, delivers |-> 1, handed |-> message]

\* TextlocalSMSDevice.generate_challenge() on device d
GenerateChallenge(d, resp) ==
    LET token == Format06d(TOTP_token(d, 0))
        message == FormatTemplate(Setting("OTP_TEXTLOCAL_TOKEN_TEMPLATE").val, token)
        sent == Dispatch(message, resp)
    IN  /\ call' = [NoCall EXCEPT
                      !.op = "generate_challenge", !.dev = d, !.at = now,
                      !.old_last_t = last_t, !.computed = 1,
                      !.token = token,
                      !.logged = sent.logged, !.delivers = sent.delivers,
                      !.handed = sent.handed,
                      !.exc = sent.exc, !.posts = sent.posts, !.posted = sent.posted,
                      !.resp = resp,
                      !.returned = (sent.exc = "none"),
                      !.ret = IF sent.exc = "none" THEN Challenge(token) ELSE <<>>]
        /\ issued' = IF sent.logged # <<>> \/ sent.posts > 0
                     THEN [issued EXCEPT ![d] = @ \cup {now}] ELSE issued
        /\ last_t' = AfterChallenge(d)
        /\ UNCHANGED <<now, key, hotp, conf>>

\* range(-tolerance, 1): first and last offset of the scan
FirstOffsetLate(tolerance) == 1 - tolerance

FirstOffsetEarly(tolerance) == 0 - tolerance - 1

\* range(-abs(tolerance), 1)
FirstOffsetMagnitude(tolerance) == IF tolerance < 0 THEN tolerance ELSE 0 - tolerance

FirstOffset(tolerance) == 0 - tolerance

\* range(-tolerance, 2), within the clock values of the model
LastOffsetFuture == IF now < MaxTime THEN 1 ELSE 0

LastOffset == 0

EligibleAlways(d, t) == TRUE

\* totp.t() > self.last_t
Eligible(d, t) == t > last_t[d]

RECURSIVE Scan(_, _, _, _)

\* a scan from the newest step down: the largest matching step is accepted
ScanNewestFirst(d, token, offset, computed) ==
    LET hits == {o \in offset..LastOffset :
                    Eligible(d, TOTP_t(o)) /\ TOTP_token(d, o) = token}
    IN  IF hits = {}
        THEN [verified |-> FALSE, t |-> last_t[d], computed |-> computed]
        ELSE [verified |-> TRUE,
              t |-> TOTP_t(CHOOSE o \in hits : \A p \in hits : p <= o),
              computed |-> computed + 1]

\* the for loop of verify_token from `offset` on: the outcome, the step
\* accepted and the number of totp.token() evaluations
Scan(d, token, offset, computed) ==
    IF offset > LastOffset
    THEN [verified |-> FALSE, t |-> last_t[d], computed |-> computed]
    ELSE IF Eligible(d, TOTP_t(offset))
         THEN IF TOTP_token(d, offset) = token
              THEN [verified |-> TRUE, t |-> TOTP_t(offset), computed |-> computed + 1]
              ELSE Scan(d, token, offset + 1, computed + 1)
         ELSE Scan(d, token, offset + 1, computed)

\* the outcome of verify_token(arg) on device d in the current state
Verify(d, arg) ==
    LET parsed == IntParse(arg)
        tolerance == Setting("OTP_TEXTLOCAL_TOKEN_VALIDITY").val
    IN  IF parsed.exc = "none" THEN Scan(d, parsed.val, FirstOffset(tolerance), 0)
        ELSE [verified |-> FALSE, t |-> last_t[d], computed |-> 0]

\* a verify_token that saves the device after the loop whatever the outcome,
\* with the current step as last_t when nothing matched
VerifyTokenSavesAlways(d, arg) ==
    LET r == Verify(d, arg)
    IN  /\ last_t' = [last_t EXCEPT ![d] = IF r.verified THEN r.t ELSE now]
        /\ call' = [NoCall EXCEPT
                      !.op = "verify_token", !.dev = d, !.at = now, !.arg = arg,
                      !.old_last_t = last_t, !.verified = r.verified,
                      !.computed = r.computed,
                      !.saves = 1,
                      !.returned = TRUE]
        /\ UNCHANGED <<now, key, hotp, conf, issued>>

\* TextlocalSMSDevice.verify_token(arg) on device d
VerifyToken(d, arg) ==
    LET r == Verify(d, arg)
    IN  /\ last_t' = IF r.verified THEN [last_t EXCEPT ![d] = r.t] ELSE last_t
        /\ call' = [NoCall EXCEPT
                      !.op = "verify_token", !.dev = d, !.at = now, !.arg = arg,
                      !.old_last_t = last_t, !.verified = r.verified,
                      !.computed = r.computed,
                      !.saves = IF r.verified THEN 1 ELSE 0,
                      !.returned = TRUE]
        /\ UNCHANGED <<now, key, hotp, conf, issued>>

\* the clock reads t at the next call (tests patch time.time to any value,
\* later or earlier); steps before the origin are not modelled.  `call` holds
\* the outcome of a call only until the clock moves.
SetTime(t) ==
    /\ t # now
    /\ t >= Setting("OTP_TEXTLOCAL_TOKEN_VALIDITY").val
    /\ \A d \in DOMAIN key : t \in DOMAIN hotp[key[d]]
    /\ now' = t
    /\ call' = NoCall
    /\ UNCHANGED <<key, last_t, hotp, conf, issued>>

----------------------------------------------------------------------------
(* Inputs and initial states *)

\* what a caller may pass: a six-digit code, the same number without padding,
\* a non-numeric string, None
Candidates ==
    {Str(Format06d(c)) : c \in Codes}
    \cup {Str(<<"4", "2">>), Str(<<"a", "b", "c">>), NoneArg}

SettingNames ==
    {"OTP_TEXTLOCAL_ACCOUNT", "OTP_TEXTLOCAL_AUTH", "OTP_TEXTLOCAL_CHALLENGE_MESSAGE",
     "OTP_TEXTLOCAL_FROM", "OTP_TEXTLOCAL_NO_DELIVERY", "OTP_TEXTLOCAL_TOKEN_TEMPLATE",
     "OTP_TEXTLOCAL_TOKEN_VALIDITY", "OTP_TEXTLOCAL_URL", "OTP_TEXTLOCAL_API_KEY",
     "OTP_TEXTLOCAL_SENDER"}

NoSettings == [n \in SettingNames |-> Unset]

\* the settings of TestTextlocalSMS, with a validity of v seconds
TestSettings(v) ==
    [NoSettings EXCEPT
       !["OTP_TEXTLOCAL_NO_DELIVERY"] = Set(TRUE),
       !["OTP_TEXTLOCAL_CHALLENGE_MESSAGE"] = Set(TplToken),
       !["OTP_TEXTLOCAL_TOKEN_VALIDITY"] = Set(v)]

\* freshly created devices devs (last_t at its default), any HOTP function
\* on the steps in `steps`
InitDevices(devs, steps) ==
    /\ key = [d \in devs |-> TestKeys[d]]
    /\ last_t = [d \in devs |-> -1]
    /\ hotp \in [{TestKeys[d] : d \in devs} -> [steps -> Codes]]
    /\ issued = [d \in devs |-> {}]
    /\ call = NoCall

Init ==
    /\ InitDevices({"alice"}, Times)
    /\ \E v \in 0..MaxValidity : conf = TestSettings(v) /\ now = v

Next ==
    \/ \E t \in Times : SetTime(t)
    \/ \E d \in DOMAIN key, resp \in Answers : GenerateChallenge(d, resp)
    \/ \E d \in DOMAIN key, arg \in Candidates : VerifyToken(d, arg)

Spec == Init /\ [][Next]_vars

\* the two devices of the tests, alice's and bob's, with different keys, over
\* the steps of one window of the widest validity
InitCross ==
    /\ InitDevices({"alice", "bob"}, 0..MaxValidity)
    /\ \E v \in 0..MaxValidity : conf = TestSettings(v) /\ now = v

\* test_cross_user: alice's device issues the tokens, bob's verifies them
NextCross ==
    \/ \E t \in Times : SetTime(t)
    \/ \E resp \in Answers : GenerateChallenge("alice", resp)
    \/ \E arg \in Candidates : VerifyToken("bob", arg)

SpecCross == InitCross /\ [][NextCross]_vars

\* a value of OTP_TEXTLOCAL_URL, OTP_TEXTLOCAL_API_KEY, OTP_TEXTLOCAL_SENDER:
\* not in the Django settings, None, or a string
Configured == {Unset, Set(PyNone), Set("configured")}

\* Django settings with the delivery settings in any state, delivery on (the
\* default) or off, and the templates left at their defaults or both set
DeliverySettings ==
    {[NoSettings EXCEPT
        !["OTP_TEXTLOCAL_NO_DELIVERY"] = nd,
        !["OTP_TEXTLOCAL_URL"] = url,
        !["OTP_TEXTLOCAL_API_KEY"] = api,
        !["OTP_TEXTLOCAL_SENDER"] = sender,
        !["OTP_TEXTLOCAL_TOKEN_TEMPLATE"] = tpl[1],
        !["OTP_TEXTLOCAL_CHALLENGE_MESSAGE"] = tpl[2],
        !["OTP_TEXTLOCAL_TOKEN_VALIDITY"] = Set(v)] :
      nd \in {Unset, Set(TRUE)}, url \in Configured, api \in Configured,
      sender \in Configured,
      tpl \in {<<Unset, Unset>>, <<Set(TplTokenIs), Set(TplToken)>>},
      v \in 0..MaxValidity}

InitDelivery ==
    /\ InitDevices({"alice"}, 0..MaxValidity)
    /\ conf \in DeliverySettings
    /\ now = Setting("OTP_TEXTLOCAL_TOKEN_VALIDITY").val

\* challenges sent through the Textlocal endpoint
NextDelivery ==
    \E d \in DOMAIN key, resp \in Answers : GenerateChallenge(d, resp)

SpecDelivery == InitDelivery /\ [][NextDelivery]_vars

\* Django settings with delivery on or off, the three delivery settings all
\* unset or all set, and the templates at their defaults or both set
ChallengeSettings ==
    {[NoSettings EXCEPT
        !["OTP_TEXTLOCAL_NO_DELIVERY"] = nd,
        !["OTP_TEXTLOCAL_URL"] = c,
        !["OTP_TEXTLOCAL_API_KEY"] = c,
        !["OTP_TEXTLOCAL_SENDER"] = c,
        !["OTP_TEXTLOCAL_TOKEN_TEMPLATE"] = tpl[1],
        !["OTP_TEXTLOCAL_CHALLENGE_MESSAGE"] = tpl[2],
        !["OTP_TEXTLOCAL_TOKEN_VALIDITY"] = Set(v)] :
      nd \in {Unset, Set(TRUE)}, c \in Configured \ {Set(PyNone)},
      tpl \in {<<Unset, Unset>>, <<Set(TplTokenIs), Set(TplToken)>>},
      v \in 0..MaxValidity}

InitChallenge ==
    /\ InitDevices({"alice"}, 0..MaxValidity)
    /\ conf \in ChallengeSettings
    /\ now = Setting("OTP_TEXTLOCAL_TOKEN_VALIDITY").val

\* challenges, delivered or not, and the verifications of the same instant
NextChallenge ==
    \/ \E d \in DOMAIN key, resp \in Answers : GenerateChallenge(d, resp)
    \/ \E d \in DOMAIN key, arg \in Candidates : VerifyToken(d, arg)

SpecChallenge == InitChallenge /\ [][NextChallenge]_vars

\* the settings of the tests with any validity, a negative one included
InitTolerance ==
    /\ InitDevices({"alice"}, Times)
    /\ \E v \in (0 - 1)..MaxValidity : conf = TestSettings(v)
    /\ now = IF Setting("OTP_TEXTLOCAL_TOKEN_VALIDITY").val < 0 THEN 0
             ELSE Setting("OTP_TEXTLOCAL_TOKEN_VALIDITY").val

\* verifications at any time
NextTolerance ==
    \/ \E t \in Times : SetTime(t)
    \/ \E d \in DOMAIN key, arg \in Candidates : VerifyToken(d, arg)

SpecTolerance == InitTolerance /\ [][NextTolerance]_vars

\* Two requests work on the same device: the row in the database, and one
\* TextlocalSMSDevice object per request, loaded from the row.  last_t[Row] is
\* the stored column, last_t[r] the attribute of request r's object.
Row == "alice"

Requests == {"request1", "request2"}

\* device = alice.textlocalsmsdevice_set.get(): request r loads the row
Load(r) ==
    /\ last_t' = [last_t EXCEPT ![r] = last_t[Row]]
    /\ UNCHANGED <<now, key, hotp, conf, issued, call>>

\* verify_token(arg) on the object of request r; self.save() writes the
\* object's fields to the row
VerifyTokenLoaded(r, arg) ==
    LET v == Verify(r, arg)
    IN  /\ last_t' = IF v.verified
                     THEN [last_t EXCEPT ![r] = v.t, ![Row] = v.t]
                     ELSE last_t
        /\ call' = [NoCall EXCEPT
                      !.op = "verify_token", !.dev = r, !.at = now, !.arg = arg,
                      !.old_last_t = last_t, !.verified = v.verified,
                      !.computed = v.computed,
                      !.saves = IF v.verified THEN 1 ELSE 0,
                      !.returned = TRUE]
        /\ UNCHANGED <<now, key, hotp, conf, issued>>

InitLoaded ==
    /\ key = [d \in {Row} \cup Requests |-> AliceKey]
    /\ last_t = [d \in {Row} \cup Requests |-> -1]
    /\ hotp \in [{AliceKey} -> [0..MaxValidity -> Codes]]
    /\ issued = [d \in {Row} \cup Requests |-> {}]
    /\ call = NoCall
    /\ \E v \in 0..MaxValidity : conf = TestSettings(v)
    /\ now = Setting("OTP_TEXTLOCAL_TOKEN_VALIDITY").val

\* requests that load the device and verify at any time, in any order
NextLoaded ==
    \/ \E t \in Times : SetTime(t)
    \/ \E r \in Requests : Load(r)
    \/ \E r \in Requests, arg \in Candidates : VerifyTokenLoaded(r, arg)

SpecLoaded == InitLoaded /\ [][NextLoaded]_vars

----------------------------------------------------------------------------
(* What the claims speak of *)

Validity == Setting("OTP_TEXTLOCAL_TOKEN_VALIDITY").val

\* the string generate_challenge(d) hands out at time T
TokenAt(d, T) == Str(Format06d(hotp[key[d]][T]))

\* the last call was verify_token on d with the token issued on device g at time T
VerifiedIssued(g, T) ==
    /\ call.op = "verify_token"
    /\ T \in issued[g]
    /\ call.arg = TokenAt(g, T)

\* a step S of the window lo..hi that device d may still accept and whose code is c
Acceptable(d, lo, hi, c) ==
    {S \in (lo..hi) \cap DOMAIN hotp[key[d]] :
        S > call.old_last_t[d] /\ hotp[key[d]][S] = c}

----------------------------------------------------------------------------
(* C1: a code generated at time T on a device whose last_t is below T is
   accepted at every time V with T <= V <= T + OTP_TEXTLOCAL_TOKEN_VALIDITY.
   (last_t still below T when verify_token is called is what "last_t below T
   at generation and no successful verification since" leaves.) *)
C1_AcceptedWithinValidity ==
    \A T \in Times :
        ( /\ VerifiedIssued(call.dev, T)
          /\ T <= call.at /\ call.at <= T + Validity
          /\ call.old_last_t[call.dev] < T )
        => call.verified

\* a code accepted at the last possible second, T + validity with validity > 0
C1_Witness ==
    \E T \in Times :
        /\ VerifiedIssued(call.dev, T)
        /\ Validity > 0 /\ call.at = T + Validity
        /\ call.old_last_t[call.dev] < T
        /\ call.verified

(* C2: if verify_token(candidate) returns true, a second verify_token with
   the same candidate on that device, at the same instant or later within
   the validity window, returns false. *)
C2_SameCodeNotAcceptedTwice ==
    [][ ( /\ call.op = "verify_token" /\ call.verified
          /\ call'.op = "verify_token" /\ call'.dev = call.dev
          /\ call'.arg = call.arg
          /\ call'.at >= call.at /\ call'.at <= call.at + Validity )
        => ~call'.verified ]_vars

(* C3: last_t starts at -1 and never decreases, whatever the clock does; a
   successful verify_token sets it to a strictly greater step, so no step at
   or below an accepted one is accepted again. *)
C3_WatermarkIncreases ==
    /\ \A d \in DOMAIN last_t : last_t[d] = -1
    /\ [][ \A d \in DOMAIN last_t :
             /\ last_t'[d] >= last_t[d]
             /\ (call'.op = "verify_token" /\ call'.verified /\ call'.dev = d)
                => last_t'[d] > last_t[d] ]_vars

\* a second acceptance on a device, above the first one
C3_Witness ==
    /\ call.op = "verify_token" /\ call.verified
    /\ call.old_last_t[call.dev] >= 0
    /\ last_t[call.dev] > call.old_last_t[call.dev]

(* C4 as claimed: a code generated at time T fails verification at time
   T + OTP_TEXTLOCAL_TOKEN_VALIDITY + 1. *)
C4_ExpiredCodeFails ==
    \A T \in Times :
        (VerifiedIssued(call.dev, T) /\ call.at = T + Validity + 1)
        => ~call.verified

(* C4 amended: at time T + validity + 1 step T is outside the scan, so the
   code generated at T is never accepted as step T; verify_token returns true
   exactly when a step S of T+1..T+validity+1 above last_t has the same code,
   and then last_t becomes the smallest such S. *)
C4_ExpiredStepNotAccepted ==
    \A T \in Times :
        (VerifiedIssued(call.dev, T) /\ call.at = T + Validity + 1)
        => LET later == Acceptable(call.dev, T + 1, call.at, hotp[key[call.dev]][T])
           IN  /\ call.verified <=> later # {}
               /\ call.verified =>
                    /\ last_t[call.dev] > T
                    /\ \A S \in later : last_t[call.dev] <= S

\* a code one second too late, refused
C4_Witness ==
    \E T \in Times :
        /\ VerifiedIssued(call.dev, T) /\ call.at = T + Validity + 1
        /\ call.old_last_t[call.dev] < T
        /\ ~call.verified

(* C5 as claimed: a code generated at time T+1 fails verification at time T. *)
C5_FutureCodeFails ==
    \A T \in Times :
        (VerifiedIssued(call.dev, T + 1) /\ call.at = T)
        => ~call.verified

(* C5 amended: the scan never probes a step later than the current one, so a
   code generated at T+1 is never accepted as step T+1 at time T;
   verify_token returns true exactly when a step S of T-validity..T above
   last_t has the same code, and then last_t becomes such an S <= T. *)
C5_FutureStepNotAccepted ==
    /\ (call.op = "verify_token" /\ call.verified) => last_t[call.dev] <= call.at
    /\ \A T \in Times :
        (T + 1 \in Times /\ VerifiedIssued(call.dev, T + 1) /\ call.at = T)
        => (call.verified <=>
              Acceptable(call.dev, T - Validity, T, hotp[key[call.dev]][T + 1]) # {})

\* a code from the future, refused
C5_Witness ==
    \E T \in Times :
        /\ T + 1 \in Times
        /\ VerifiedIssued(call.dev, T + 1) /\ call.at = T
        /\ call.old_last_t[call.dev] < T
        /\ ~call.verified

(* C6: once a token generated at time G has been accepted, no token
   generated at a time earlier than G is accepted by a later verify_token
   on that device. *)
C6_NoEarlierTokenAfterAcceptance ==
    [][ \A G, E \in Times :
          ( /\ VerifiedIssued(call.dev, G) /\ call.verified
            /\ E < G
            /\ call'.op = "verify_token" /\ call'.dev = call.dev
            /\ E \in issued'[call.dev] /\ call'.arg = TokenAt(call.dev, E) )
          => ~call'.verified ]_vars

(* C7: a candidate that int() cannot parse makes verify_token return false
   without raising, without computing a code, without changing last_t and
   without saving. *)
C7_MalformedRejected ==
    (call.op = "verify_token" /\ call.arg \in {Str(<<"a", "b", "c">>), NoneArg})
    => /\ call.returned /\ call.exc = "none"
       /\ ~call.verified
       /\ call.computed = 0
       /\ call.saves = 0
       /\ last_t = call.old_last_t

\* a non-numeric string refused on a device that would accept the current code
C7_Witness ==
    /\ call.op = "verify_token"
    /\ call.arg = Str(<<"a", "b", "c">>)
    /\ ~call.verified
    /\ call.old_last_t[call.dev] < call.at

(* C8 as claimed: a code generated on device A fails verification on a
   device B with a different secret, and the call leaves the last_t of both
   unchanged. *)
C8_OtherDeviceCodeFails ==
    \A a \in DOMAIN key : \A T \in issued[a] :
        ( /\ VerifiedIssued(a, T)
          /\ call.dev # a /\ key[call.dev] # key[a] )
        => (~call.verified /\ last_t = call.old_last_t)

(* C8 amended: verify_token on B never changes A's last_t; it returns true
   exactly when A's code is also B's own code at a step of B's window above
   B's last_t, and it leaves B's last_t unchanged whenever it returns false. *)
C8_OtherDeviceCodeFailsUnlessShared ==
    \A a \in DOMAIN key : \A T \in issued[a] :
        ( /\ VerifiedIssued(a, T)
          /\ call.dev # a /\ key[call.dev] # key[a] )
        => /\ last_t[a] = call.old_last_t[a]
           /\ ~call.verified => last_t = call.old_last_t
           /\ call.verified <=>
                Acceptable(call.dev, call.at - Validity, call.at, hotp[key[a]][T]) # {}

\* alice's current code refused on bob's device, which would accept its own
C8_Witness ==
    \E a \in DOMAIN key :
        /\ call.op = "verify_token" /\ call.dev # a /\ key[call.dev] # key[a]
        /\ VerifiedIssued(a, call.at)
        /\ call.old_last_t[call.dev] < call.at
        /\ ~call.verified
        /\ last_t = call.old_last_t

----------------------------------------------------------------------------
(* Delivery *)

DeliverySettingNames ==
    {"OTP_TEXTLOCAL_URL", "OTP_TEXTLOCAL_API_KEY", "OTP_TEXTLOCAL_SENDER"}

DeliveryEnabled == ~Setting("OTP_TEXTLOCAL_NO_DELIVERY").val

\* a delivery setting that is not in the Django settings, or is None
Missing(n) == ~conf[n].set \/ conf[n].val = PyNone

(* C9: with delivery enabled and any of the endpoint URL, the API key and
   the sender missing from the configuration, generate_challenge fails with
   ImproperlyConfigured and makes no call to the provider. *)
C9_MissingSettingIsImproperlyConfigured ==
    ( /\ call.op = "generate_challenge"
      /\ DeliveryEnabled
      /\ \E n \in DeliverySettingNames : Missing(n) )
    => (call.exc = "ImproperlyConfigured" /\ ~call.returned /\ call.posts = 0)

(* C10: with delivery enabled and the configuration complete,
   generate_challenge returns the acknowledgment only if the provider call
   returned a non-error HTTP status and a body whose 'status' is 'success';
   every other outcome is raised to the caller and nothing is returned. *)
C10_AcknowledgedOnlyOnSuccess ==
    ( /\ call.op = "generate_challenge"
      /\ DeliveryEnabled
      /\ \A n \in DeliverySettingNames : ~Missing(n) )
    => LET success == /\ call.resp.post = "ok" /\ call.resp.http < 400
                      /\ call.resp.json /\ call.resp.status = "success"
           ack == FormatTemplate(Setting("OTP_TEXTLOCAL_CHALLENGE_MESSAGE").val,
                                 call.token)
       IN  /\ call.posts = 1
           /\ success => (call.returned /\ call.exc = "none" /\ call.ret = ack)
           /\ ~success => (~call.returned /\ call.exc # "none" /\ call.ret = <<>>)

\* the provider answered HTTP 200 with a 'status' other than 'success', and
\* the challenge was raised, not acknowledged
C10_Witness ==
    /\ call.op = "generate_challenge"
    /\ DeliveryEnabled
    /\ \A n \in DeliverySettingNames : ~Missing(n)
    /\ call.resp.post = "ok" /\ call.resp.http = 200 /\ call.resp.json
    /\ call.resp.status = "failure"
    /\ ~call.returned /\ call.exc = "Exception"

(* C11: generate_challenge never changes stored device state: whether the
   token is delivered, logged, refused for the configuration or fails in
   delivery, last_t and key are as before and nothing is saved, so a failed
   challenge can be repeated and every later verify_token answers as if it
   had not been made. *)
C11_ChallengeLeavesDeviceAlone ==
    [][ call'.op = "generate_challenge"
        => /\ last_t' = last_t
           /\ key' = key
           /\ call'.saves = 0
           /\ UNCHANGED <<now, hotp, conf>>
           /\ \A d \in DOMAIN key : \A arg \in {TokenAt(d, now)} :
                Verify(d, arg)' = Verify(d, arg) ]_vars

\* a delivery that failed on a device that has verified a token before
C11_Witness ==
    /\ call.op = "generate_challenge"
    /\ call.posts = 1 /\ call.exc = "Exception"
    /\ last_t[call.dev] >= 0
    /\ last_t = call.old_last_t

\* the text before {token} in the delivered-message template: nothing in the
\* default '{token}', "Token is " in 'Token is {token}'
MessageLiteral ==
    IF conf["OTP_TEXTLOCAL_TOKEN_TEMPLATE"].set THEN <<"Token is ">> ELSE <<>>

\* a run of exactly six decimal digits whose value is n
SixDigitsOf(chars, n) ==
    /\ Len(chars) = 6
    /\ \A i \in 1..6 : chars[i] \in DigitSet
    /\ DigitsValue(chars) = n

(* C12: with delivery enabled, the message generate_challenge hands to the
   delivery step is the delivered-message template with {token} replaced by
   the current step's code as six zero-padded decimal digits, and those six
   digits given to verify_token at the same instant, on a device whose last_t
   is below the current step, are accepted. *)
C12_DeliveredCodeVerifies ==
    /\ (call.op = "generate_challenge" /\ DeliveryEnabled)
       => /\ call.delivers = 1
          /\ Len(call.handed) = Len(MessageLiteral) + 6
          /\ SubSeq(call.handed, 1, Len(MessageLiteral)) = MessageLiteral
          /\ SixDigitsOf(SubSeq(call.handed, Len(MessageLiteral) + 1, Len(call.handed)),
                         hotp[key[call.dev]][call.at])
    /\ ( /\ call.op = "verify_token"
         /\ DeliveryEnabled
         /\ call.at \in issued[call.dev]
         /\ call.arg.kind = "str"
         /\ SixDigitsOf(call.arg.chars, hotp[key[call.dev]][call.at])
         /\ call.old_last_t[call.dev] < call.at )
       => call.verified

\* a delivered code that needs its padding, accepted at the instant it was sent
C12_Witness ==
    /\ call.op = "verify_token"
    /\ DeliveryEnabled
    /\ call.at \in issued[call.dev]
    /\ call.arg = Str(<<"0", "0", "0", "0", "4", "2">>)
    /\ hotp[key[call.dev]][call.at] = 42
    /\ call.old_last_t[call.dev] < call.at
    /\ call.verified

(* C13: what generate_challenge returns is the acknowledgment template with
   the code substituted, not the delivered message; with an acknowledgment
   template that has no {token} (the default "Sent by SMS") the returned
   string is the same for every device, secret and time. *)
C13_AcknowledgmentNotMessage ==
    (call.op = "generate_challenge" /\ call.returned)
    => /\ conf["OTP_TEXTLOCAL_CHALLENGE_MESSAGE"].set
          => /\ SixDigitsOf(call.ret, hotp[key[call.dev]][call.at])
             /\ call.ret # call.posted /\ call.ret # call.logged
       /\ ~conf["OTP_TEXTLOCAL_CHALLENGE_MESSAGE"].set
          => /\ call.ret = <<"Sent by SMS">>
             /\ call.ret # call.posted /\ call.ret # call.logged

\* a delivered challenge acknowledged with the default "Sent by SMS"
C13_Witness ==
    /\ call.op = "generate_challenge"
    /\ call.returned
    /\ call.posts = 1
    /\ ~conf["OTP_TEXTLOCAL_CHALLENGE_MESSAGE"].set
    /\ call.ret = <<"Sent by SMS">>
    /\ call.posted = call.token

(* C14: in no-delivery mode generate_challenge logs the formatted message,
   calls neither the delivery step nor the provider, validates no setting,
   and returns the acknowledgment; it succeeds also when the endpoint URL,
   the API key and the sender are all missing. *)
C14_NoDeliveryLogsOnly ==
    (call.op = "generate_challenge" /\ ~DeliveryEnabled)
    => /\ call.logged = MessageLiteral \o call.token
       /\ SixDigitsOf(call.token, hotp[key[call.dev]][call.at])
       /\ call.delivers = 0
       /\ call.posts = 0
       /\ call.exc = "none"
       /\ call.returned
       /\ call.ret = (IF conf["OTP_TEXTLOCAL_CHALLENGE_MESSAGE"].set
                      THEN call.token ELSE <<"Sent by SMS">>)

\* a challenge logged and acknowledged with none of the delivery settings
C14_Witness ==
    /\ call.op = "generate_challenge"
    /\ ~DeliveryEnabled
    /\ \A n \in DeliverySettingNames : Missing(n)
    /\ call.logged # <<>>
    /\ call.returned

\* the smallest element of a non-empty set of steps
Smallest(steps) == CHOOSE S \in steps : \A R \in steps : S <= R

(* C15: verify_token scans the window from the oldest step up and accepts the
   first that qualifies: on success the new last_t is the smallest step S of
   [now - tolerance, now] with S above the old last_t and the code of S equal
   to the candidate, and the later steps of the window with the same code stay
   acceptable to a following verification. *)
C15_SmallestMatchingStepAccepted ==
    (call.op = "verify_token" /\ IntParse(call.arg).exc = "none")
    => LET acc == Acceptable(call.dev, call.at - Validity, call.at,
                             IntParse(call.arg).val)
       IN  /\ call.verified <=> acc # {}
           /\ call.verified
              => /\ last_t[call.dev] = Smallest(acc)
                 /\ \A S \in acc \ {Smallest(acc)} :
                      /\ S > last_t[call.dev]
                      /\ \A arg \in {call.arg} : Verify(call.dev, arg).verified

\* an accepted code that two steps of the window share
C15_Witness ==
    /\ call.op = "verify_token"
    /\ call.verified
    /\ call.arg.kind = "str"
    /\ Cardinality(Acceptable(call.dev, call.at - Validity, call.at,
                              DigitsValue(call.arg.chars))) >= 2

(* C16: two verify_token calls that run concurrently on the same device
   record, each on its own copy loaded from storage, cannot both return true
   for the same step's code, and no interleaving of their load, compare and
   save steps leaves the stored last_t lower than a value stored earlier. *)
C16_ConcurrentVerificationSafe ==
    [][ /\ ( /\ call.op = "verify_token" /\ call.verified
             /\ call'.op = "verify_token" /\ call'.verified
             /\ call'.dev # call.dev
             /\ call'.arg = call.arg )
           => last_t'[call'.dev] # last_t[call.dev]
        /\ last_t'[Row] >= last_t[Row] ]_vars

(* C17: a verify_token that returns false, for whatever reason, leaves last_t
   as it was and does not save; the device is saved exactly when verify_token
   returns true, once, with last_t set to the accepted step. *)
C17_SavedOnlyOnSuccess ==
    call.op = "verify_token"
    => /\ ~call.verified
          => (call.saves = 0 /\ last_t = call.old_last_t)
       /\ call.verified
          => /\ call.saves = 1
             /\ last_t[call.dev] > call.old_last_t[call.dev]
             /\ last_t[call.dev] \in (call.at - Validity)..call.at
             /\ hotp[key[call.dev]][last_t[call.dev]] = IntParse(call.arg).val
             /\ \A d \in DOMAIN last_t \ {call.dev} : last_t[d] = call.old_last_t[d]

\* the current code refused because its step is already used: nothing saved
C17_Witness ==
    /\ call.op = "verify_token"
    /\ call.arg = TokenAt(call.dev, call.at)
    /\ ~call.verified
    /\ call.saves = 0
    /\ call.old_last_t[call.dev] = call.at
    /\ last_t = call.old_last_t

(* C18: a device whose key is not exactly 40 hex characters (20 bytes) is a
   configuration error: it cannot be used to generate or to verify codes. *)
C18_KeyOfTwentyBytesRequired ==
    ( \/ call.op = "generate_challenge" /\ call.returned
      \/ call.op = "verify_token" /\ call.verified )
    => KeyValidator(key[call.dev])

(* C19: when verify_token returns true at clock step N with a tolerance of 0
   or more, N - tolerance <= last_t <= N; last_t is -1 until a verification
   sets it and is never above the clock step of the verification that set it,
   so it is -1 or at most the largest step at which a verification has run;
   with a negative tolerance the scan range is empty and every verification
   returns false. *)
C19_WatermarkWithinClock ==
    /\ \A d \in DOMAIN last_t : last_t[d] = -1
    /\ [](call.op = "verify_token"
          => /\ Validity < 0 => (~call.verified /\ call.computed = 0)
             /\ (call.verified /\ Validity >= 0)
                => /\ call.at - Validity <= last_t[call.dev]
                   /\ last_t[call.dev] <= call.at)
    /\ [][ \A d \in DOMAIN last_t :
             last_t'[d] # last_t[d]
             => /\ call'.op = "verify_token" /\ call'.dev = d /\ call'.verified
                /\ last_t'[d] <= now' ]_vars

\* a code accepted at the oldest step of the window
C19_Witness ==
    /\ call.op = "verify_token"
    /\ call.verified
    /\ Validity > 0
    /\ last_t[call.dev] = call.at - Validity

====
